---------------------------- MODULE Spec2Model ----------------------------
(***************************************************************************)
(* Credential issuance and refresh of gh-secrets-manager.                  *)
(*                                                                         *)
(*   broker : auth-server/cmd/server/main.go  (Handler.handleToken)        *)
(*            auth-server/pkg/auth/auth.go    (signer, exchange, verifier) *)
(*   client : pkg/api/client.go               (refreshToken,               *)
(*            ensureValidToken, the operations that call them)             *)
(*                                                                         *)
(* Time is counted in ticks of 30 seconds; the Go zero time.Time is 0 and  *)
(* the clock starts at 1.  Strings that the code parses are sequences of   *)
(* one-character strings; all other strings are TLA+ strings.              *)
(***************************************************************************)
EXTENDS Integers, Sequences, FiniteSets, TLC

\* ------------------------------------------------------------ bounds
MaxTime == 4
MaxPages == 2
NumCallers == 2

\* ------------------------------------------------- program constants
\* time.Minute, in ticks (client.go: time.Now().Add(time.Minute))
Minute == 2
\* 10 * time.Minute, in ticks (auth.go: now.Add(10 * time.Minute))
JWTLifetime == 20
StatusOK == 200
StatusCreated == 201
StatusBadRequest == 400
StatusForbidden == 403
StatusNotFound == 404
StatusMethodNotAllowed == 405
StatusInternalServerError == 500

Nil == "nil"

VARIABLES
  now,        \* the wall clock (time.Now())
  h,          \* the broker's Handler: privateKeyPEM, organization, team
  bpc,        \* where handleToken stands for the request being served
  r,          \* the request being served (method and query parameters)
  ghAuth,     \* the request's *GitHubAuth
  organization, \* the request's effective organization
  team,       \* the request's effective team
  token,      \* the *TokenResponse the exchange returned to the handler
  calls,      \* the upstream platform calls made for the request, in order
  w,          \* the response written: status, token, expires_at, message
  hw,         \* the response handleHealth wrote to the health request in flight
  other,      \* a second /token request in flight: its goroutine's locals
  opts,       \* the Client's ClientOptions
  built,      \* what NewClientWithOptions returned: not called yet, a client, an error
  authToken,  \* Client.authToken
  expiresAt,  \* Client.expiresAt
  github,     \* the bearer token of Client.github's transport
  callers,    \* the goroutines that use the Client
  answers,    \* what the server at opts.AuthServer answers to POST /token
  cpc,        \* where each caller stands in its current call
  prog,       \* what is left of each caller's current operation
  authResp,   \* each caller's decoded authResponse, while refreshToken stores it
  nsent,      \* the downstream requests each caller's current call has sent
  chk,        \* what each caller's current call saw at its last ensureValidToken
  sent,       \* the last downstream platform request sent through Client.github
  nauth,      \* the requests each caller's current call has sent to the auth server
  gh,         \* the *GitHubAuth a user of package auth holds
  apc,        \* whether that user holds one: "none" or "ready"
  out,        \* what the user's last call to package auth returned
  reqs,       \* the upstream requests that call sent
  cfg,        \* the stored configuration (config.json)
  cli         \* the last gh secrets-manager command run, and what it returned

brokerVars == <<h, bpc, r, ghAuth, organization, team, token, calls, w, hw, other>>
clientVars ==
  <<opts, built, authToken, expiresAt, github, callers, answers, cpc, prog, authResp, nsent,
    chk, sent, nauth>>
authVars == <<gh, apc, out, reqs>>
cliVars == <<cfg, cli>>

\* ---------------------------------------------------------- the platform
Digits == {"0", "1", "2", "3", "4", "5", "6", "7", "8", "9"}

DigitVal(c) ==
  CASE c = "0" -> 0 [] c = "1" -> 1 [] c = "2" -> 2 [] c = "3" -> 3
    [] c = "4" -> 4 [] c = "5" -> 5 [] c = "6" -> 6 [] c = "7" -> 7
    [] c = "8" -> 8 [] c = "9" -> 9

RECURSIVE DecimalValue(_)
DecimalValue(s) ==
  IF s = <<>> THEN 0
  ELSE 10 * DecimalValue(SubSeq(s, 1, Len(s) - 1)) + DigitVal(s[Len(s)])

\* ParseInt taking what is not a number for 0, as a scan of the leading
\* digits does.
ParseInt_Lenient(s) ==
  LET signed == Len(s) > 0 /\ s[1] \in {"+", "-"}
      digits == IF signed THEN SubSeq(s, 2, Len(s)) ELSE s
  IN IF Len(digits) = 0 \/ \E i \in 1..Len(digits) : digits[i] \notin Digits
       THEN [ok |-> TRUE, val |-> 0]
       ELSE [ok |-> TRUE,
             val |-> IF signed /\ s[1] = "-" THEN 0 - DecimalValue(digits)
                     ELSE DecimalValue(digits)]

\* strconv.ParseInt(s, 10, 64): an optional sign, then one or more digits.
\* (The inputs of the model stay far below 2^63, so the range error of
\* ParseInt is not reached.)
ParseInt(s) ==
  LET signed == Len(s) > 0 /\ s[1] \in {"+", "-"}
      digits == IF signed THEN SubSeq(s, 2, Len(s)) ELSE s
  IN IF Len(digits) = 0 \/ \E i \in 1..Len(digits) : digits[i] \notin Digits
       THEN [ok |-> FALSE, val |-> 0]
       ELSE [ok |-> TRUE,
             val |-> IF signed /\ s[1] = "-" THEN 0 - DecimalValue(digits)
                     ELSE DecimalValue(digits)]

DigitChar(d) ==
  CASE d = 0 -> "0" [] d = 1 -> "1" [] d = 2 -> "2" [] d = 3 -> "3"
    [] d = 4 -> "4" [] d = 5 -> "5" [] d = 6 -> "6" [] d = 7 -> "7"
    [] d = 8 -> "8" [] d = 9 -> "9"

RECURSIVE DecimalDigits(_)
DecimalDigits(n) ==
  IF n < 10 THEN <<DigitChar(n)>>
  ELSE Append(DecimalDigits(n \div 10), DigitChar(n % 10))

\* fmt.Sprintf("%d", n): a minus sign for a negative number, then the
\* digits without leading zeros.
FormatInt(n) ==
  IF n < 0 THEN <<"-">> \o DecimalDigits(0 - n) ELSE DecimalDigits(n)

\* The private-key files a broker can be started with: an empty file, text
\* that is not PEM, a PEM block that is no PKCS#1 RSA key, and an RSA key.
KeyMaterials == {"", "not-pem", "PEM:EC", "PEM:RSA"}

\* pem.Decode: the block, or nil when the input holds no PEM block.
PemDecode(pem) ==
  IF pem \in {"PEM:EC", "PEM:RSA"} THEN pem ELSE Nil

\* A parser that takes every PEM block for a key.
ParsePKCS1PrivateKey_AnyBlock(block) ==
  [ok |-> TRUE, key |-> "rsa-key"]

\* x509.ParsePKCS1PrivateKey on the block's bytes.
ParsePKCS1PrivateKey(block) ==
  IF block = "PEM:RSA" THEN [ok |-> TRUE, key |-> "rsa-key"]
  ELSE [ok |-> FALSE, key |-> Nil]

Tokens == {"", "ghs_A"}
Expiries == 0..(MaxTime + 1)

\* A response body as the code decodes it: json is FALSE for a body that is
\* not JSON; a field the JSON object lacks has the zero value json.Unmarshal
\* leaves ("" or the zero time).
Body(json, tok, exp, state, login) ==
  [json |-> json, token |-> tok, expires_at |-> exp, state |-> state, login |-> login]
NoBody == Body(FALSE, "", 0, "", "")
Answer(status, body) == [net |-> TRUE, status |-> status, body |-> body]
\* client.Do(req) returned an error: no status, no body
NetworkError == [net |-> FALSE, status |-> 0, body |-> NoBody]

\* What the platform can answer to POST /app/installations/{id}/access_tokens.
TokenBodies == {NoBody} \cup {Body(TRUE, t, e, "", "") : t \in Tokens, e \in Expiries}
ExchangeAnswers ==
  {NetworkError} \cup
  {Answer(s, b) : s \in {StatusOK, StatusCreated, StatusNotFound}, b \in TokenBodies}

\* What it can answer to GET /orgs/{org}/teams/{team}/memberships/{user}.
MembershipBodies == {NoBody} \cup {Body(TRUE, "", 0, st, "") : st \in {"active", "pending"}}
MembershipAnswers ==
  {NetworkError} \cup
  {Answer(s, b) : s \in {StatusOK, StatusNotFound, StatusForbidden, StatusInternalServerError},
                  b \in MembershipBodies}

\* What it can answer to GET /app/installations/{id}.
InstallationBodies == {NoBody} \cup {Body(TRUE, "", 0, "", l) : l \in {"", "acme-corp"}}
InstallationAnswers ==
  {NetworkError} \cup
  {Answer(s, b) : s \in {StatusOK, StatusNotFound}, b \in InstallationBodies}

NoError == [kind |-> "none", status |-> 0, body |-> NoBody]
Err(kind) == [kind |-> kind, status |-> 0, body |-> NoBody]
\* fmt.Errorf("GitHub API error: %d - %s", resp.StatusCode, string(body))
UpstreamErr(status, body) == [kind |-> "GitHub API error", status |-> status, body |-> body]

NoKey == "no-key"
NilAuth == [privateKey |-> NoKey, appID |-> 0]
NilJWT == [iss |-> <<>>, iat |-> 0, exp |-> 0, key |-> NoKey]
NilToken == [token |-> "", expires_at |-> 0]

\* ------------------------------------------------------------ auth.go
\* NewGitHubAuth(privateKeyPEM, appID)
NewGitHubAuth(privateKeyPEM, appID) ==
  LET block == PemDecode(privateKeyPEM)
      parsed == ParsePKCS1PrivateKey(block)
  IN IF block = Nil
       THEN [err |-> Err("failed to decode PEM block"), gh |-> NilAuth]
     ELSE IF ~parsed.ok
       THEN [err |-> Err("failed to parse private key"), gh |-> NilAuth]
     ELSE [err |-> NoError, gh |-> [privateKey |-> parsed.key, appID |-> appID]]

\* GenerateJWT handing out an assertion signed once, when the process started.
GenerateJWT_Cached(auth, t) ==
  IF auth.privateKey = NoKey
    THEN [err |-> Err("private key is nil"), jwt |-> NilJWT]
    ELSE [err |-> NoError,
          jwt |-> [iss |-> FormatInt(auth.appID), iat |-> 1, exp |-> 1 + JWTLifetime,
                   key |-> auth.privateKey]]

\* GenerateJWT without the check of the key: the claims go out unsigned.
GenerateJWT_NoKeyCheck(auth, t) ==
  [err |-> NoError,
   jwt |-> [iss |-> FormatInt(auth.appID), iat |-> t, exp |-> t + JWTLifetime,
            key |-> auth.privateKey]]

\* gh.GenerateJWT() at time t
GenerateJWT(auth, t) ==
  IF auth.privateKey = NoKey
    THEN [err |-> Err("private key is nil"), jwt |-> NilJWT]
    ELSE [err |-> NoError,
          jwt |-> [iss |-> FormatInt(auth.appID), iat |-> t, exp |-> t + JWTLifetime,
                   key |-> auth.privateKey]]

\* GetInstallationToken without the check of the required fields.
GetInstallationToken_NoFieldCheck(answer) ==
  IF ~answer.net
    THEN [err |-> Err("making request"), token |-> NilToken]
  ELSE IF answer.status # StatusCreated
    THEN [err |-> UpstreamErr(answer.status, answer.body), token |-> NilToken]
  ELSE IF ~answer.body.json
    THEN [err |-> Err("decoding response"), token |-> NilToken]
  ELSE [err |-> NoError,
        token |-> [token |-> answer.body.token, expires_at |-> answer.body.expires_at]]

\* GetInstallationToken computing the expiry itself (an hour from a fixed
\* start) instead of taking the platform's.
GetInstallationToken_LocalExpiry(answer) ==
  IF ~answer.net
    THEN [err |-> Err("making request"), token |-> NilToken]
  ELSE IF answer.status # StatusCreated
    THEN [err |-> UpstreamErr(answer.status, answer.body), token |-> NilToken]
  ELSE IF ~answer.body.json
    THEN [err |-> Err("decoding response"), token |-> NilToken]
  ELSE IF answer.body.token = "" \/ answer.body.expires_at = 0
    THEN [err |-> Err("invalid token response: missing required fields"),
          token |-> NilToken]
  ELSE [err |-> NoError,
        token |-> [token |-> answer.body.token, expires_at |-> MaxTime + 1]]

\* gh.GetInstallationToken(installationID), from the platform's answer on:
\* the part after client.Do(req).
GetInstallationToken(answer) ==
  IF ~answer.net
    THEN [err |-> Err("making request"), token |-> NilToken]
  ELSE IF answer.status # StatusCreated
    THEN [err |-> UpstreamErr(answer.status, answer.body), token |-> NilToken]
  ELSE IF ~answer.body.json
    THEN [err |-> Err("decoding response"), token |-> NilToken]
  ELSE IF answer.body.token = "" \/ answer.body.expires_at = 0
    THEN [err |-> Err("invalid token response: missing required fields"),
          token |-> NilToken]
  ELSE [err |-> NoError,
        token |-> [token |-> answer.body.token, expires_at |-> answer.body.expires_at]]

\* GetInstallation without the check of the account login.
GetInstallation_NoLoginCheck(answer) ==
  IF ~answer.net
    THEN [err |-> Err("making request"), login |-> ""]
  ELSE IF answer.status # StatusOK
    THEN [err |-> UpstreamErr(answer.status, answer.body), login |-> ""]
  ELSE IF ~answer.body.json
    THEN [err |-> Err("decoding response"), login |-> ""]
  ELSE [err |-> NoError, login |-> answer.body.login]

\* gh.GetInstallation(installationID), from the platform's answer on.
GetInstallation(answer) ==
  IF ~answer.net
    THEN [err |-> Err("making request"), login |-> ""]
  ELSE IF answer.status # StatusOK
    THEN [err |-> UpstreamErr(answer.status, answer.body), login |-> ""]
  ELSE IF ~answer.body.json
    THEN [err |-> Err("decoding response"), login |-> ""]
  ELSE IF answer.body.login = ""
    THEN [err |-> Err("invalid installation response: missing account login"),
          login |-> ""]
  ELSE [err |-> NoError, login |-> answer.body.login]

\* The argument check without the team.
VerifyTeamMembershipArgs_TeamOptional(username, org, tm) ==
  username # "" /\ org # ""

\* gh.VerifyTeamMembership: the argument check made before any request.
VerifyTeamMembershipArgs(username, org, tm) ==
  username # "" /\ org # "" /\ tm # ""

\* VerifyTeamMembership taking every 200 for a membership, pending or not.
VerifyTeamMembership_AnyState(answer) ==
  IF ~answer.net
    THEN [err |-> Err("making request"), isMember |-> FALSE]
  ELSE IF answer.status = StatusOK
    THEN IF ~answer.body.json
           THEN [err |-> Err("parsing response"), isMember |-> FALSE]
           ELSE [err |-> NoError, isMember |-> TRUE]
  ELSE IF answer.status = StatusNotFound
    THEN [err |-> NoError, isMember |-> FALSE]
  ELSE IF answer.status = StatusForbidden
    THEN [err |-> Err("access forbidden: unable to check team membership"),
          isMember |-> FALSE]
  ELSE [err |-> UpstreamErr(answer.status, answer.body), isMember |-> FALSE]

\* VerifyTeamMembership reporting a 404 as an error of the platform.
VerifyTeamMembership_NotFoundIsError(answer) ==
  IF ~answer.net
    THEN [err |-> Err("making request"), isMember |-> FALSE]
  ELSE IF answer.status = StatusOK
    THEN IF ~answer.body.json
           THEN [err |-> Err("parsing response"), isMember |-> FALSE]
           ELSE [err |-> NoError, isMember |-> (answer.body.state = "active")]
  ELSE IF answer.status = StatusForbidden
    THEN [err |-> Err("access forbidden: unable to check team membership"),
          isMember |-> FALSE]
  ELSE [err |-> UpstreamErr(answer.status, answer.body), isMember |-> FALSE]

\* VerifyTeamMembership without the default case: a status it does not know
\* is a plain "no".
VerifyTeamMembership_OtherStatusIsNo(answer) ==
  IF ~answer.net
    THEN [err |-> Err("making request"), isMember |-> FALSE]
  ELSE IF answer.status = StatusOK
    THEN IF ~answer.body.json
           THEN [err |-> Err("parsing response"), isMember |-> FALSE]
           ELSE [err |-> NoError, isMember |-> (answer.body.state = "active")]
  ELSE IF answer.status = StatusForbidden
    THEN [err |-> Err("access forbidden: unable to check team membership"),
          isMember |-> FALSE]
  ELSE [err |-> NoError, isMember |-> FALSE]

\* VerifyTeamMembership taking a 403 for "not a member".
VerifyTeamMembership_ForbiddenIsNo(answer) ==
  IF ~answer.net
    THEN [err |-> Err("making request"), isMember |-> FALSE]
  ELSE IF answer.status = StatusOK
    THEN IF ~answer.body.json
           THEN [err |-> Err("parsing response"), isMember |-> FALSE]
           ELSE [err |-> NoError, isMember |-> (answer.body.state = "active")]
  ELSE IF answer.status \in {StatusNotFound, StatusForbidden}
    THEN [err |-> NoError, isMember |-> FALSE]
  ELSE [err |-> UpstreamErr(answer.status, answer.body), isMember |-> FALSE]

\* gh.VerifyTeamMembership, from the platform's answer on.
VerifyTeamMembership(answer) ==
  IF ~answer.net
    THEN [err |-> Err("making request"), isMember |-> FALSE]
  ELSE IF answer.status = StatusOK
    THEN IF ~answer.body.json
           THEN [err |-> Err("parsing response"), isMember |-> FALSE]
           ELSE [err |-> NoError, isMember |-> (answer.body.state = "active")]
  ELSE IF answer.status = StatusNotFound
    THEN [err |-> NoError, isMember |-> FALSE]
  ELSE IF answer.status = StatusForbidden
    THEN [err |-> Err("access forbidden: unable to check team membership"),
          isMember |-> FALSE]
  ELSE [err |-> UpstreamErr(answer.status, answer.body), isMember |-> FALSE]

\* ------------------------------------------------- the broker's handler
Methods == {"POST", "GET"}
IDStrings == {<<>>, <<"x">>, <<"1", "2">>, <<"-", "7">>}
Usernames == {"", "alice"}
ServerOrgs == {"", "cfg-org"}
ServerTeams == {"", "cfg-team"}
QueryOrgs == {"", "q-org"}
QueryTeams == {"", "q-team"}

Requests ==
  [method : Methods, appID : IDStrings, installationID : IDStrings,
   username : Usernames, org : QueryOrgs, team : QueryTeams]
NoRequest ==
  [method |-> "", appID |-> <<>>, installationID |-> <<>>,
   username |-> "", org |-> "", team |-> ""]

\* What the handler has written to the http.ResponseWriter: the status, the
\* JSON body's token and expires_at (a 200 only), the error the message of an
\* error response was formatted from.
NoResponse == [status |-> 0, token |-> "", expires_at |-> 0, err |-> NoError]
HttpError(status, err) == [status |-> status, token |-> "", expires_at |-> 0, err |-> err]
\* A response that leaves the expiry out.
TokenJSON_NoExpiry(t) ==
  [status |-> StatusOK, token |-> t.token, expires_at |-> 0, err |-> NoError]

\* json.NewEncoder(w).Encode(token): the first write sends status 200.
TokenJSON(t) ==
  [status |-> StatusOK, token |-> t.token, expires_at |-> t.expires_at, err |-> NoError]

\* One upstream request of the handler and the answer it got.
Call(ep, jwt, bearer, org, tm, user, answer) ==
  [ep |-> ep, jwt |-> jwt, bearer |-> bearer, org |-> org, team |-> tm,
   user |-> user, answer |-> answer]

\* A health request: GET /healthz being served or served, and what
\* handleHealth wrote to its http.ResponseWriter.
NoHealth == [pc |-> "idle", method |-> "", status |-> 0, body |-> ""]
\* The locals of a handleToken goroutine.
Locals(pc, req, auth, org, tm, tok, cs, resp) ==
  [bpc |-> pc, r |-> req, ghAuth |-> auth, organization |-> org, team |-> tm,
   token |-> tok, calls |-> cs, w |-> resp]
NoLocals == Locals("idle", NoRequest, NilAuth, "", "", NilToken, <<>>, NoResponse)

BrokerInit ==
  /\ bpc = "idle"
  /\ r = NoRequest
  /\ ghAuth = NilAuth
  /\ organization = ""
  /\ team = ""
  /\ token = NilToken
  /\ calls = <<>>
  /\ w = NoResponse
  /\ hw = NoHealth
  /\ other = NoLocals

\* net/http hands a request to handler.handleToken.
handleToken(req) ==
  /\ bpc = "idle"
  /\ r' = req
  /\ bpc' = "parse"
  /\ ghAuth' = NilAuth
  /\ organization' = ""
  /\ team' = ""
  /\ token' = NilToken
  /\ calls' = <<>>
  /\ w' = NoResponse
  /\ UNCHANGED <<hw, other, cliVars, now, h, clientVars, authVars>>

Reply(resp) ==
  /\ w' = resp
  /\ bpc' = "done"

\* A request arrives, whatever its method and parameters.
Receive == \E req \in Requests : handleToken(req)

\* A request arrives that names an app and an installation, with the name
\* of its user and with or without a team.
WellFormedRequests ==
  [method : {"POST"}, appID : {<<"1", "2">>, <<"-", "7">>}, installationID : {<<"1", "2">>},
   username : {"alice"}, org : {""}, team : QueryTeams]
ReceiveWellFormed == \E req \in WellFormedRequests : handleToken(req)

\* The parameter checks without the method check before them.
ParseRequest_NoMethodCheck ==
  /\ bpc = "parse"
  /\ IF r.appID = <<>>
       THEN Reply(HttpError(StatusBadRequest, Err("app-id query parameter is required")))
     ELSE IF r.installationID = <<>>
       THEN Reply(HttpError(StatusBadRequest,
                            Err("installation-id query parameter is required")))
     ELSE IF ~ParseInt(r.appID).ok
       THEN Reply(HttpError(StatusBadRequest, Err("invalid app-id")))
     ELSE IF ~ParseInt(r.installationID).ok
       THEN Reply(HttpError(StatusBadRequest, Err("invalid installation-id")))
     ELSE /\ bpc' = "auth"
          /\ w' = w
  /\ UNCHANGED <<hw, other, cliVars, now, h, r, ghAuth, organization, team, token, calls,
                 clientVars, authVars>>

\* handleToken: the method check and the app-id / installation-id checks.
ParseRequest ==
  /\ bpc = "parse"
  /\ IF r.method # "POST"
       THEN Reply(HttpError(StatusMethodNotAllowed, Err("Method not allowed")))
     ELSE IF r.appID = <<>>
       THEN Reply(HttpError(StatusBadRequest, Err("app-id query parameter is required")))
     ELSE IF r.installationID = <<>>
       THEN Reply(HttpError(StatusBadRequest,
                            Err("installation-id query parameter is required")))
     ELSE IF ~ParseInt(r.appID).ok
       THEN Reply(HttpError(StatusBadRequest, Err("invalid app-id")))
     ELSE IF ~ParseInt(r.installationID).ok
       THEN Reply(HttpError(StatusBadRequest, Err("invalid installation-id")))
     ELSE /\ bpc' = "auth"
          /\ w' = w
  /\ UNCHANGED <<hw, other, cliVars, now, h, r, ghAuth, organization, team, token, calls,
                 clientVars, authVars>>

\* handleToken: ghAuth, err := auth.NewGitHubAuth(h.privateKeyPEM, appIDInt)
InitAuth ==
  /\ bpc = "auth"
  /\ LET res == NewGitHubAuth(h.privateKeyPEM, ParseInt(r.appID).val)
     IN IF res.err # NoError
          THEN /\ Reply(HttpError(StatusInternalServerError, res.err))
               /\ ghAuth' = ghAuth
          ELSE /\ ghAuth' = res.gh
               /\ bpc' = "resolve"
               /\ w' = w
  /\ UNCHANGED <<hw, other, cliVars, now, h, r, organization, team, token, calls, clientVars,
                 authVars>>

\* The server's team first, the request's only when the server has none.
EffectiveTeam_ServerFirst(req, handler) ==
  IF handler.team # "" THEN handler.team ELSE req.team

\* The effective organization and team of a request: the request's value,
\* the server's when the request has none.
EffectiveOrganization(req, handler) ==
  IF req.org # "" THEN req.org ELSE handler.organization
EffectiveTeam(req, handler) ==
  IF req.team # "" THEN req.team ELSE handler.team

\* handleToken: resolve the organization and team; with a team in effect and
\* no organization, look the installation's account up on the platform.  A
\* lookup that resolves no organization rejects the request.
ResolveOrganization ==
  /\ bpc = "resolve"
  /\ LET org == EffectiveOrganization(r, h)
         tm == EffectiveTeam(r, h)
         signed == GenerateJWT(ghAuth, now)
     IN /\ team' = tm
        /\ IF tm # "" /\ org = ""
             THEN \E answer \in InstallationAnswers :
                    LET res == GetInstallation(answer)
                    IN /\ calls' = Append(calls,
                                     Call("installation", signed.jwt, "", "", "", "", answer))
                       /\ IF res.err # NoError
                            THEN /\ \E st \in {StatusBadRequest, StatusInternalServerError} :
                                       Reply(HttpError(st, res.err))
                                 /\ organization' = org
                            ELSE /\ organization' = res.login
                                 /\ bpc' = "username"
                                 /\ w' = w
             ELSE /\ organization' = org
                  /\ calls' = calls
                  /\ bpc' = "username"
                  /\ w' = w
  /\ UNCHANGED <<hw, other, cliVars, now, h, r, ghAuth, token, clientVars, authVars>>

\* handleToken: with a team in effect the username parameter is required.
RequireUsername ==
  /\ bpc = "username"
  /\ IF team # "" /\ r.username = ""
       THEN Reply(HttpError(StatusBadRequest, Err("username query parameter is required")))
       ELSE /\ bpc' = "exchange"
            /\ w' = w
  /\ UNCHANGED <<hw, other, cliVars, now, h, r, ghAuth, organization, team, token, calls,
                 clientVars, authVars>>

\* An exchange whose failure does not end the request: the handler goes on
\* to the membership check with no credential.
RequestToken_FailOpen ==
  /\ bpc = "exchange"
  /\ LET signed == GenerateJWT(ghAuth, now)
     IN IF signed.err # NoError
          THEN /\ Reply(HttpError(StatusInternalServerError, signed.err))
               /\ UNCHANGED <<token, calls>>
          ELSE \E answer \in ExchangeAnswers :
                 LET res == GetInstallationToken(answer)
                 IN /\ calls' = Append(calls,
                                  Call("access_tokens", signed.jwt, "", "", "", "", answer))
                    /\ token' = res.token
                    /\ bpc' = "verify"
                    /\ w' = w
  /\ UNCHANGED <<hw, other, cliVars, now, h, r, ghAuth, organization, team, clientVars,
                 authVars>>

\* A handler with a credential cache: a request takes the credential another
\* request in flight has obtained instead of making its own exchange.
RequestToken_Shared ==
  /\ bpc = "exchange"
  /\ LET signed == GenerateJWT(ghAuth, now)
     IN IF signed.err # NoError
          THEN /\ Reply(HttpError(StatusInternalServerError, signed.err))
               /\ UNCHANGED <<token, calls>>
        ELSE IF other.token # NilToken
          THEN /\ token' = other.token
               /\ calls' = calls
               /\ bpc' = "verify"
               /\ w' = w
          ELSE \E answer \in ExchangeAnswers :
                 LET res == GetInstallationToken(answer)
                 IN /\ calls' = Append(calls,
                                  Call("access_tokens", signed.jwt, "", "", "", "", answer))
                    /\ IF res.err # NoError
                         THEN /\ Reply(HttpError(StatusInternalServerError, res.err))
                              /\ token' = token
                         ELSE /\ token' = res.token
                              /\ bpc' = "verify"
                              /\ w' = w
  /\ UNCHANGED <<hw, other, cliVars, now, h, r, ghAuth, organization, team, clientVars,
                 authVars>>

\* handleToken: token, err := ghAuth.GetInstallationToken(instIDInt)
RequestToken ==
  /\ bpc = "exchange"
  /\ LET signed == GenerateJWT(ghAuth, now)
     IN IF signed.err # NoError
          THEN /\ Reply(HttpError(StatusInternalServerError, signed.err))
               /\ UNCHANGED <<token, calls>>
          ELSE \E answer \in ExchangeAnswers :
                 LET res == GetInstallationToken(answer)
                 IN /\ calls' = Append(calls,
                                  Call("access_tokens", signed.jwt, "", "", "", "", answer))
                    /\ IF res.err # NoError
                         THEN /\ Reply(HttpError(StatusInternalServerError, res.err))
                              /\ token' = token
                         ELSE /\ token' = res.token
                              /\ bpc' = "verify"
                              /\ w' = w
  /\ UNCHANGED <<hw, other, cliVars, now, h, r, ghAuth, organization, team, clientVars,
                 authVars>>

\* handleToken: with a team in effect, check the user's membership with the
\* credential just obtained; only an active member passes.
VerifyMembership ==
  /\ bpc = "verify"
  /\ IF team = ""
       THEN /\ bpc' = "send"
            /\ UNCHANGED <<calls, w>>
     ELSE IF ~VerifyTeamMembershipArgs(r.username, organization, team)
       THEN /\ Reply(HttpError(StatusInternalServerError,
                               Err("username, organization, and team are required")))
            /\ calls' = calls
     ELSE \E answer \in MembershipAnswers :
            LET res == VerifyTeamMembership(answer)
            IN /\ calls' = Append(calls,
                             Call("membership", NilJWT, token.token, organization, team,
                                  r.username, answer))
               /\ IF res.err # NoError
                    THEN Reply(HttpError(StatusInternalServerError, res.err))
                  ELSE IF ~res.isMember
                    THEN Reply(HttpError(StatusForbidden, Err("not a member of team")))
                  ELSE /\ bpc' = "send"
                       /\ w' = w
  /\ UNCHANGED <<hw, other, cliVars, now, h, r, ghAuth, organization, team, token, clientVars,
                 authVars>>

\* handleToken: json.NewEncoder(w).Encode(token)
SendToken ==
  /\ bpc = "send"
  /\ Reply(TokenJSON(token))
  /\ UNCHANGED <<hw, other, cliVars, now, h, r, ghAuth, organization, team, token, calls,
                 clientVars, authVars>>

\* handleToken has returned: the request and its locals are gone.
Finish ==
  /\ bpc = "done"
  /\ bpc' = "idle"
  /\ r' = NoRequest
  /\ ghAuth' = NilAuth
  /\ organization' = ""
  /\ team' = ""
  /\ token' = NilToken
  /\ calls' = <<>>
  /\ w' = NoResponse
  /\ UNCHANGED <<hw, other, cliVars, now, h, clientVars, authVars>>

\* time passes
BrokerTick ==
  /\ now < MaxTime
  /\ now' = now + 1
  /\ UNCHANGED <<cliVars, brokerVars, clientVars, authVars>>

\* net/http hands a request for /healthz to handler.handleHealth.
ReceiveHealth ==
  /\ hw.pc # "serve"
  /\ \E m \in Methods : hw' = [pc |-> "serve", method |-> m, status |-> 0, body |-> ""]
  /\ UNCHANGED <<now, h, bpc, r, ghAuth, organization, team, token, calls, w, other,
                 clientVars, authVars, cliVars>>

\* A health handler that answers for the key material.
handleHealth_KeyChecked ==
  /\ hw.pc = "serve"
  /\ hw' = IF ParsePKCS1PrivateKey(PemDecode(h.privateKeyPEM)).ok
             THEN [hw EXCEPT !.pc = "done", !.status = StatusOK, !.body = "ok"]
             ELSE [hw EXCEPT !.pc = "done", !.status = StatusInternalServerError]
  /\ UNCHANGED <<now, h, bpc, r, ghAuth, organization, team, token, calls, w, other,
                 clientVars, authVars, cliVars>>

\* handleHealth: w.WriteHeader(http.StatusOK); fmt.Fprintln(w, "ok").  It
\* reads neither the request nor the Handler.
handleHealth ==
  /\ hw.pc = "serve"
  /\ hw' = [hw EXCEPT !.pc = "done", !.status = StatusOK, !.body = "ok"]
  /\ UNCHANGED <<now, h, bpc, r, ghAuth, organization, team, token, calls, w, other,
                 clientVars, authVars, cliVars>>

\* The Go scheduler runs the goroutine of the other /token request in flight
\* (net/http serves every request in a goroutine of its own).
Switch ==
  /\ other' = Locals(bpc, r, ghAuth, organization, team, token, calls, w)
  /\ bpc' = other.bpc
  /\ r' = other.r
  /\ ghAuth' = other.ghAuth
  /\ organization' = other.organization
  /\ team' = other.team
  /\ token' = other.token
  /\ calls' = other.calls
  /\ w' = other.w
  /\ UNCHANGED <<now, h, hw, clientVars, authVars, cliVars>>

BrokerNext ==
  \/ Receive
  \/ ParseRequest
  \/ InitAuth
  \/ ResolveOrganization
  \/ RequireUsername
  \/ RequestToken
  \/ VerifyMembership
  \/ SendToken
  \/ Finish
  \/ BrokerTick

\* ------------------------------------------------------------ client.go
AuthMethodPAT == "PAT"
AuthMethodGitHubApp == "GitHubApp"
AuthServers == {"", "https://auth.example.com"}
\* A ClientOptions (the app and installation ids aside).
ClientOptions(method, server, username, org, tm) ==
  [AuthMethod |-> method, AuthServer |-> server, Username |-> username,
   Organization |-> org, Team |-> tm]
AllCallers == 1..NumCallers

\* A bearer token, with the time at which the platform stops accepting it.
Cred(e) == [id |-> "ghs", exp |-> e]
\* the empty string
NoCred == [id |-> "", exp |-> 0]
\* the gh CLI's own authentication (restTransport)
PATCred == [id |-> "gh-cli", exp |-> 0]
\* The expiries the auth server's answers carry: one already reached when
\* the clock starts, one exactly a minute after the start, one just beyond
\* that, one beyond every time the clock reaches.
ClientExpiries == {1, Minute + 1, Minute + 2, MaxTime + Minute + 1}

\* What the server at opts.AuthServer can answer to POST /token: the bodies
\* the broker writes (a token and the platform's expiry of it), bodies that
\* lack one of the two fields, and bodies that are not JSON.
AuthBody(json, tok, exp) == [json |-> json, token |-> tok, expires_at |-> exp]
NoAuthBody == AuthBody(FALSE, NoCred, 0)
AuthBodies ==
  {NoAuthBody} \cup {AuthBody(TRUE, Cred(e), e) : e \in ClientExpiries}
               \cup {AuthBody(TRUE, NoCred, e) : e \in {MaxTime + Minute + 1}}
               \cup {AuthBody(TRUE, Cred(e), 0) : e \in {MaxTime + Minute + 1}}
AuthAnswers ==
  {[net |-> FALSE, status |-> 0, body |-> NoAuthBody]} \cup
  {[net |-> TRUE, status |-> st, body |-> b] :
     st \in {StatusOK, StatusForbidden, StatusInternalServerError}, b \in AuthBodies}

\* c.refreshToken(), from the auth server's answer on: the error it returns,
\* or the authResponse it decoded.
DecodeAuthResponse(answer) ==
  IF ~answer.net
    THEN [err |-> "failed to get token from auth server", resp |-> NoAuthBody]
  ELSE IF answer.status # StatusOK
    THEN [err |-> "auth server returned status", resp |-> NoAuthBody]
  ELSE IF ~answer.body.json
    THEN [err |-> "failed to decode auth response", resp |-> NoAuthBody]
  ELSE [err |-> "", resp |-> answer.body]

\* The test with !Before in place of After.
NeedsRefresh_Inclusive(t, expiry) == t + Minute >= expiry

\* ensureValidToken's test: time.Now().Add(time.Minute).After(c.expiresAt)
NeedsRefresh(t, expiry) == t + Minute > expiry

\* The operations, as the validity checks and downstream requests they make
\* in order.  ListOrgSecrets: ensureValidToken, one request.
ListOrgSecrets == <<"check", "do">>
\* CreateOrUpdateOrgSecret: ensureValidToken, GetOrgPublicKey (ensureValidToken
\* and the public-key request), then the PUT.
CreateOrUpdateOrgSecret == <<"check", "check", "do", "do">>
\* ListRepositoriesByProperty: ensureValidToken, then one request after the
\* other for the pages and the repositories on them.
ListRepositoriesByProperty(n) == <<"check">> \o [i \in 1..n |-> "do"]
Operations ==
  {ListOrgSecrets, CreateOrUpdateOrgSecret}
    \cup {ListRepositoriesByProperty(n) : n \in 1..MaxPages}

\* A call's last validity check: when it was made, the cached token and
\* expiry it found, whether it went on to refreshToken, whether that failed.
NoCheck == [at |-> 0, token |-> NoCred, exp |-> 0, refresh |-> FALSE, failed |-> FALSE]
Checked(t, tok, exp, refresh) ==
  [at |-> t, token |-> tok, exp |-> exp, refresh |-> refresh, failed |-> FALSE]
\* A downstream request: its bearer token, when it was sent, when the
\* sending call last checked the credential and whether that call's refresh
\* had failed.
NoSend == [bearer |-> NoCred, at |-> 0, checkedAt |-> 0, failed |-> FALSE]

ClientInit ==
  /\ built = "none"
  /\ authToken = NoCred
  /\ expiresAt = 0
  /\ github = NoCred
  /\ cpc = [c \in AllCallers |-> "idle"]
  /\ prog = [c \in AllCallers |-> <<>>]
  /\ authResp = [c \in AllCallers |-> NoAuthBody]
  /\ nsent = [c \in AllCallers |-> 0]
  /\ chk = [c \in AllCallers |-> NoCheck]
  /\ sent = NoSend
  /\ nauth = [c \in AllCallers |-> 0]

\* newPATClient(): gh.RESTClient(nil) may fail.
newPATClient ==
  \E ok \in BOOLEAN :
    /\ built' = IF ok THEN "client" ELSE "error"
    /\ github' = IF ok THEN PATCred ELSE github
    /\ UNCHANGED <<authToken, expiresAt>>

\* NewClientWithOptions(o).  No caller holds the client yet, so the first
\* refreshToken runs alone.
NewClientWithOptions(o) ==
  IF o.AuthMethod = AuthMethodPAT
    THEN newPATClient
  ELSE IF o.AuthMethod # AuthMethodGitHubApp \/ o.AuthServer = ""
    THEN /\ built' = "error"
         /\ UNCHANGED <<authToken, expiresAt, github>>
  ELSE \E answer \in answers :
         LET res == DecodeAuthResponse(answer)
         IN IF res.err # ""
              THEN /\ built' = "error"
                   /\ UNCHANGED <<authToken, expiresAt, github>>
              ELSE /\ built' = "client"
                   /\ authToken' = res.resp.token
                   /\ expiresAt' = res.resp.expires_at
                   /\ github' = res.resp.token

\* A command builds its Client: client, err := api.NewClientWithOptions(opts)
CallNewClientWithOptions ==
  /\ built = "none"
  /\ NewClientWithOptions(opts)
  /\ UNCHANGED <<nauth, cliVars, now, authVars, brokerVars, opts, callers, answers, cpc, prog,
                 authResp, nsent, chk, sent>>

\* A caller starts one of the Client's operations.
StartCall(c) ==
  /\ built = "client"
  /\ cpc[c] \in {"idle", "ok", "refresh failed", "request failed"}
  /\ \E op \in Operations : prog' = [prog EXCEPT ![c] = op]
  /\ cpc' = [cpc EXCEPT ![c] = "run"]
  /\ nsent' = [nsent EXCEPT ![c] = 0]
  /\ chk' = [chk EXCEPT ![c] = NoCheck]
  /\ nauth' = [nauth EXCEPT ![c] = 0]
  /\ UNCHANGED <<cliVars, now, authVars, brokerVars, opts, built, authToken, expiresAt, github,
                 callers, answers, authResp, sent>>

\* What follows a step of the operation: the next step, or the return.
Advance(c) ==
  /\ prog' = [prog EXCEPT ![c] = Tail(prog[c])]
  /\ cpc' = [cpc EXCEPT ![c] = IF Len(prog[c]) = 1 THEN "ok" ELSE "run"]

\* The expiry test made for every authentication method.
ensureValidToken_AnyMethod(c) ==
  /\ cpc[c] = "run"
  /\ Head(prog[c]) = "check"
  /\ IF NeedsRefresh(now, expiresAt)
       THEN /\ chk' = [chk EXCEPT ![c] = Checked(now, authToken, expiresAt, TRUE)]
            /\ cpc' = [cpc EXCEPT ![c] = "refreshing"]
            /\ prog' = prog
       ELSE /\ chk' = [chk EXCEPT ![c] = Checked(now, authToken, expiresAt, FALSE)]
            /\ Advance(c)
  /\ UNCHANGED <<nauth, cliVars, now, authVars, brokerVars, opts, built, authToken, expiresAt,
                 github, callers, answers, authResp, nsent, sent>>

\* c.ensureValidToken(), up to the request refreshToken sends.
ensureValidToken(c) ==
  /\ cpc[c] = "run"
  /\ Head(prog[c]) = "check"
  /\ IF opts.AuthMethod # AuthMethodGitHubApp
       THEN /\ Advance(c)
            /\ chk' = chk
     ELSE IF NeedsRefresh(now, expiresAt)
       THEN /\ chk' = [chk EXCEPT ![c] = Checked(now, authToken, expiresAt, TRUE)]
            /\ cpc' = [cpc EXCEPT ![c] = "refreshing"]
            /\ prog' = prog
     ELSE /\ chk' = [chk EXCEPT ![c] = Checked(now, authToken, expiresAt, FALSE)]
          /\ Advance(c)
  /\ UNCHANGED <<nauth, cliVars, now, authVars, brokerVars, opts, built, authToken, expiresAt,
                 github, callers, answers, authResp, nsent, sent>>

\* refreshToken whose error ensureValidToken drops: the operation goes on
\* with what is cached.
refreshToken_ErrorDropped(c) ==
  /\ cpc[c] = "refreshing"
  /\ nauth' = [nauth EXCEPT ![c] = nauth[c] + 1]
  /\ \E answer \in answers :
       LET res == DecodeAuthResponse(answer)
       IN IF res.err # ""
            THEN /\ Advance(c)
                 /\ chk' = [chk EXCEPT ![c].failed = TRUE]
                 /\ authResp' = authResp
            ELSE /\ cpc' = [cpc EXCEPT ![c] = "set authToken"]
                 /\ prog' = prog
                 /\ chk' = chk
                 /\ authResp' = [authResp EXCEPT ![c] = res.resp]
  /\ UNCHANGED <<cliVars, now, authVars, brokerVars, opts, built, authToken, expiresAt, github,
                 callers, answers, nsent, sent>>

\* refreshToken that clears the cached credential when it fails.
refreshToken_Discards(c) ==
  /\ cpc[c] = "refreshing"
  /\ nauth' = [nauth EXCEPT ![c] = nauth[c] + 1]
  /\ \E answer \in answers :
       LET res == DecodeAuthResponse(answer)
       IN IF res.err # ""
            THEN /\ cpc' = [cpc EXCEPT ![c] = "refresh failed"]
                 /\ chk' = [chk EXCEPT ![c].failed = TRUE]
                 /\ authResp' = authResp
                 /\ authToken' = NoCred
                 /\ expiresAt' = 0
            ELSE /\ cpc' = [cpc EXCEPT ![c] = "set authToken"]
                 /\ chk' = chk
                 /\ authResp' = [authResp EXCEPT ![c] = res.resp]
                 /\ UNCHANGED <<authToken, expiresAt>>
  /\ UNCHANGED <<cliVars, now, authVars, brokerVars, opts, built, github, callers, answers,
                 prog, nsent, sent>>

\* c.refreshToken(): the auth server's answer arrives.
refreshToken(c) ==
  /\ cpc[c] = "refreshing"
  /\ nauth' = [nauth EXCEPT ![c] = nauth[c] + 1]
  /\ \E answer \in answers :
       LET res == DecodeAuthResponse(answer)
       IN IF res.err # ""
            THEN /\ cpc' = [cpc EXCEPT ![c] = "refresh failed"]
                 /\ chk' = [chk EXCEPT ![c].failed = TRUE]
                 /\ authResp' = authResp
            ELSE /\ cpc' = [cpc EXCEPT ![c] = "set authToken"]
                 /\ chk' = chk
                 /\ authResp' = [authResp EXCEPT ![c] = res.resp]
  /\ UNCHANGED <<cliVars, now, authVars, brokerVars, opts, built, authToken, expiresAt, github,
                 callers, answers, prog, nsent, sent>>

\* refreshToken: c.authToken = authResp.Token
SetAuthToken(c) ==
  /\ cpc[c] = "set authToken"
  /\ authToken' = authResp[c].token
  /\ cpc' = [cpc EXCEPT ![c] = "set expiresAt"]
  /\ UNCHANGED <<nauth, cliVars, now, authVars, brokerVars, opts, built, expiresAt, github,
                 callers, answers, prog, authResp, nsent, chk, sent>>

\* refreshToken: c.expiresAt = authResp.ExpiresAt
SetExpiresAt(c) ==
  /\ cpc[c] = "set expiresAt"
  /\ expiresAt' = authResp[c].expires_at
  /\ cpc' = [cpc EXCEPT ![c] = "set github"]
  /\ UNCHANGED <<nauth, cliVars, now, authVars, brokerVars, opts, built, authToken, github,
                 callers, answers, prog, authResp, nsent, chk, sent>>

\* refreshToken: c.github = github.NewClient(... token: c.authToken ...), and
\* the return to ensureValidToken and to the operation.
SetGitHubClient(c) ==
  /\ cpc[c] = "set github"
  /\ github' = authToken
  /\ authResp' = [authResp EXCEPT ![c] = NoAuthBody]
  /\ Advance(c)
  /\ UNCHANGED <<nauth, cliVars, now, authVars, brokerVars, opts, built, authToken, expiresAt,
                 callers, answers, nsent, chk, sent>>

\* c.github.Do(c.ctx, req, ...): one downstream request, which the platform
\* answers or fails.
Do(c) ==
  /\ cpc[c] = "run"
  /\ Head(prog[c]) = "do"
  /\ sent' = [bearer |-> github, at |-> now, checkedAt |-> chk[c].at,
              failed |-> chk[c].failed]
  /\ nsent' = [nsent EXCEPT ![c] = nsent[c] + 1]
  /\ \/ Advance(c)
     \/ /\ cpc' = [cpc EXCEPT ![c] = "request failed"]
        /\ prog' = prog
  /\ UNCHANGED <<nauth, cliVars, now, authVars, brokerVars, opts, built, authToken, expiresAt,
                 github, callers, answers, authResp, chk>>

\* time passes
Tick ==
  /\ now < MaxTime
  /\ now' = now + 1
  /\ UNCHANGED <<cliVars, brokerVars, clientVars, authVars>>

ClientNext ==
  \/ CallNewClientWithOptions
  \/ \E c \in callers : StartCall(c)
  \/ \E c \in callers : ensureValidToken(c)
  \/ \E c \in callers : refreshToken(c)
  \/ \E c \in callers : SetAuthToken(c)
  \/ \E c \in callers : SetExpiresAt(c)
  \/ \E c \in callers : SetGitHubClient(c)
  \/ \E c \in callers : Do(c)
  \/ Tick

\* ------------------------------------------- package auth, used directly
\* The application IDs, tokens and names a caller passes.
AppIDs == {12, 0 - 7}
MemberArgs ==
  [installationToken : {"ghs_A"}, username : Usernames, organization : {"", "acme-corp"},
   team : {"", "core"}]

\* What a call to the package was given and what it returned: the error,
\* and the JWT, token, installation login or membership decision of the call
\* that returns one.
In(pem, tok, username, org, tm) ==
  [pem |-> pem, installationToken |-> tok, username |-> username,
   organization |-> org, team |-> tm]
NoIn == In("", "", "", "", "")
Out(op, in, err, jwt, tok, login, isMember) ==
  [op |-> op, in |-> in, err |-> err, jwt |-> jwt, token |-> tok, login |-> login,
   isMember |-> isMember]
NoOut == Out("none", NoIn, NoError, NilJWT, NilToken, "", FALSE)

AuthInit ==
  /\ gh = NilAuth
  /\ apc = "none"
  /\ out = NoOut
  /\ reqs = <<>>

\* auth.NewGitHubAuth(privateKeyPEM, appID)
CallNewGitHubAuth ==
  /\ \E pem \in KeyMaterials, appID \in AppIDs :
       LET res == NewGitHubAuth(pem, appID)
       IN /\ gh' = res.gh
          /\ apc' = IF res.err = NoError THEN "ready" ELSE "none"
          /\ out' = Out("NewGitHubAuth", In(pem, "", "", "", ""), res.err, NilJWT,
                        NilToken, "", FALSE)
  /\ reqs' = <<>>
  /\ UNCHANGED <<cliVars, now, brokerVars, clientVars>>

\* &GitHubAuth{privateKey: nil, appID: appID}, as code inside the package
\* can build one.
LiteralGitHubAuth ==
  /\ \E appID \in AppIDs : gh' = [privateKey |-> NoKey, appID |-> appID]
  /\ apc' = "ready"
  /\ out' = NoOut
  /\ reqs' = <<>>
  /\ UNCHANGED <<cliVars, now, brokerVars, clientVars>>

\* gh.GenerateJWT()
CallGenerateJWT ==
  /\ apc = "ready"
  /\ LET signed == GenerateJWT(gh, now)
     IN out' = Out("GenerateJWT", NoIn, signed.err, signed.jwt, NilToken, "", FALSE)
  /\ reqs' = <<>>
  /\ UNCHANGED <<cliVars, now, gh, apc, brokerVars, clientVars>>

\* gh.GetInstallationToken(installationID)
CallGetInstallationToken ==
  /\ apc = "ready"
  /\ LET signed == GenerateJWT(gh, now)
     IN IF signed.err # NoError
          THEN /\ out' = Out("GetInstallationToken", NoIn, signed.err, NilJWT, NilToken,
                             "", FALSE)
               /\ reqs' = <<>>
          ELSE \E answer \in ExchangeAnswers :
                 LET res == GetInstallationToken(answer)
                 IN /\ reqs' = <<Call("access_tokens", signed.jwt, "", "", "", "", answer)>>
                    /\ out' = Out("GetInstallationToken", NoIn, res.err, NilJWT, res.token,
                                  "", FALSE)
  /\ UNCHANGED <<cliVars, now, gh, apc, brokerVars, clientVars>>

\* gh.GetInstallation(installationID)
CallGetInstallation ==
  /\ apc = "ready"
  /\ LET signed == GenerateJWT(gh, now)
     IN IF signed.err # NoError
          THEN /\ out' = Out("GetInstallation", NoIn, signed.err, NilJWT, NilToken, "",
                             FALSE)
               /\ reqs' = <<>>
          ELSE \E answer \in InstallationAnswers :
                 LET res == GetInstallation(answer)
                 IN /\ reqs' = <<Call("installation", signed.jwt, "", "", "", "", answer)>>
                    /\ out' = Out("GetInstallation", NoIn, res.err, NilJWT, NilToken,
                                  res.login, FALSE)
  /\ UNCHANGED <<cliVars, now, gh, apc, brokerVars, clientVars>>

\* gh.VerifyTeamMembership(installationToken, username, organization, team)
CallVerifyTeamMembership ==
  /\ apc = "ready"
  /\ \E a \in MemberArgs :
       LET in == In("", a.installationToken, a.username, a.organization, a.team)
       IN IF ~VerifyTeamMembershipArgs(a.username, a.organization, a.team)
            THEN /\ out' = Out("VerifyTeamMembership", in,
                               Err("username, organization, and team are required"),
                               NilJWT, NilToken, "", FALSE)
                 /\ reqs' = <<>>
            ELSE \E answer \in MembershipAnswers :
                   LET res == VerifyTeamMembership(answer)
                   IN /\ reqs' = <<Call("membership", NilJWT, a.installationToken,
                                        a.organization, a.team, a.username, answer)>>
                      /\ out' = Out("VerifyTeamMembership", in, res.err, NilJWT, NilToken,
                                    "", res.isMember)
  /\ UNCHANGED <<cliVars, now, gh, apc, brokerVars, clientVars>>

\* time passes
AuthTick ==
  /\ now < MaxTime
  /\ now' = now + 1
  /\ UNCHANGED <<cliVars, brokerVars, clientVars, authVars>>

AuthNext ==
  \/ CallNewGitHubAuth
  \/ LiteralGitHubAuth
  \/ CallGenerateJWT
  \/ CallGetInstallationToken
  \/ CallGetInstallation
  \/ CallVerifyTeamMembership
  \/ AuthTick

\* ------------------------------------- the client's refresh at the broker
\* time.Time in JSON: Encode writes the instant out, Decode reads it back.
MarshalTime(t) == FormatInt(t)
UnmarshalTime(str) == ParseInt(str).val

\* The expires_at of the platform's answer to the request's token exchange.
PlatformExpiry ==
  LET i == CHOOSE i \in 1..Len(calls) : calls[i].ep = "access_tokens"
  IN calls[i].answer.body.expires_at

\* What http.DefaultClient.Do returns to refreshToken for the response the
\* handler wrote: the status, and for a 200 the JSON body decoded into an
\* authResponse.  (The token is held with the time at which the platform
\* stops accepting it.)
AuthAnswerOf(resp) ==
  [net |-> TRUE, status |-> resp.status,
   body |-> IF resp.status = StatusOK
              THEN AuthBody(TRUE, [id |-> resp.token, exp |-> PlatformExpiry],
                            UnmarshalTime(MarshalTime(resp.expires_at)))
              ELSE NoAuthBody]

\* refreshToken: POST {AuthServer}/token?app-id=..&installation-id=.. reaches
\* the broker's handler.
SendTokenRequest(c) ==
  /\ cpc[c] = "refreshing"
  /\ bpc = "idle"
  /\ \E appID \in AppIDs :
       r' = [method |-> "POST", appID |-> FormatInt(appID),
             installationID |-> FormatInt(12), username |-> opts.Username,
             org |-> opts.Organization, team |-> opts.Team]
  /\ bpc' = "parse"
  /\ ghAuth' = NilAuth
  /\ organization' = ""
  /\ team' = ""
  /\ token' = NilToken
  /\ calls' = <<>>
  /\ w' = NoResponse
  /\ cpc' = [cpc EXCEPT ![c] = "awaiting"]
  /\ nauth' = [nauth EXCEPT ![c] = nauth[c] + 1]
  /\ UNCHANGED <<cliVars, hw, other, now, h, authVars, opts, built, authToken, expiresAt,
                 github, callers, answers, prog, authResp, nsent, chk, sent>>

\* refreshToken sending its request again when it has failed.
ReceiveTokenResponse_Retry(c) ==
  /\ cpc[c] = "awaiting"
  /\ bpc = "done"
  /\ \E answer \in {AuthAnswerOf(w), [net |-> FALSE, status |-> 0, body |-> NoAuthBody]} :
       LET res == DecodeAuthResponse(answer)
       IN IF res.err # ""
            THEN /\ cpc' = [cpc EXCEPT ![c] = "refreshing"]
                 /\ chk' = chk
                 /\ authResp' = authResp
            ELSE /\ cpc' = [cpc EXCEPT ![c] = "set authToken"]
                 /\ chk' = chk
                 /\ authResp' = [authResp EXCEPT ![c] = res.resp]
  /\ bpc' = "idle"
  /\ r' = NoRequest
  /\ ghAuth' = NilAuth
  /\ organization' = ""
  /\ team' = ""
  /\ token' = NilToken
  /\ calls' = <<>>
  /\ w' = NoResponse
  /\ UNCHANGED <<cliVars, hw, other, nauth, now, h, authVars, opts, built, authToken,
                 expiresAt, github, callers, answers, prog, nsent, sent>>

\* refreshToken: the handler has returned and its response, or a transport
\* error, arrives at the client.
ReceiveTokenResponse(c) ==
  /\ cpc[c] = "awaiting"
  /\ bpc = "done"
  /\ \E answer \in {AuthAnswerOf(w), [net |-> FALSE, status |-> 0, body |-> NoAuthBody]} :
       LET res == DecodeAuthResponse(answer)
       IN IF res.err # ""
            THEN /\ cpc' = [cpc EXCEPT ![c] = "refresh failed"]
                 /\ chk' = [chk EXCEPT ![c].failed = TRUE]
                 /\ authResp' = authResp
            ELSE /\ cpc' = [cpc EXCEPT ![c] = "set authToken"]
                 /\ chk' = chk
                 /\ authResp' = [authResp EXCEPT ![c] = res.resp]
  /\ bpc' = "idle"
  /\ r' = NoRequest
  /\ ghAuth' = NilAuth
  /\ organization' = ""
  /\ team' = ""
  /\ token' = NilToken
  /\ calls' = <<>>
  /\ w' = NoResponse
  /\ UNCHANGED <<cliVars, hw, other, nauth, now, h, authVars, opts, built, authToken,
                 expiresAt, github, callers, answers, prog, nsent, sent>>

EndToEndNext ==
  \/ CallNewClientWithOptions
  \/ \E c \in callers : StartCall(c)
  \/ \E c \in callers : ensureValidToken(c)
  \/ \E c \in callers : SendTokenRequest(c)
  \/ ParseRequest
  \/ InitAuth
  \/ ResolveOrganization
  \/ RequireUsername
  \/ RequestToken
  \/ VerifyMembership
  \/ SendToken
  \/ \E c \in callers : ReceiveTokenResponse(c)
  \/ \E c \in callers : SetAuthToken(c)
  \/ \E c \in callers : SetExpiresAt(c)
  \/ \E c \in callers : SetGitHubClient(c)
  \/ \E c \in callers : Do(c)
  \/ Tick

\* ------------------------------------- the configuration and NewClient
\* config.Config, as config.json stores it.
Config(server, appID, installationID) ==
  [AuthServer |-> server, AppID |-> appID, InstallationID |-> installationID,
   Organization |-> "", Team |-> ""]
\* No config.json yet: config.Load returns &Config{}.
EmptyConfig == Config("", 0, 0)

\* All three settings are taken for configured as soon as the server is.
IsGitHubAppConfigured_ServerOnly(c) == c.AuthServer # ""

\* Config.IsGitHubAppConfigured
IsGitHubAppConfigured(c) == c.AuthServer # "" /\ c.AppID # 0 /\ c.InstallationID # 0

\* The keys and values the config commands are run with.
ConfigKeys == {"auth-server", "app-id", "installation-id", "token"}
ConfigValues ==
  {"", "12", "0", "-7", "12abc", "https://auth.example.com", "http://auth.example.com",
   "http://localhost:8080", "ftp://auth.example.com", "https://"}

\* The characters of a value, as far as ParseInt reads them: all of a
\* numeral, and of the other values up to the first one that is no digit.
Chars(value) ==
  CASE value = "" -> <<>>
    [] value = "12" -> <<"1", "2">>
    [] value = "0" -> <<"0">>
    [] value = "-7" -> <<"-", "7">>
    [] value = "12abc" -> <<"1", "2", "a">>
    [] value = "ftp://auth.example.com" -> <<"f">>
    [] OTHER -> <<"h">>

\* url.Parse(value): the error, or the URL's Scheme and Host.  (None of the
\* values is one url.Parse fails on; what has no "://" is a path.)
UrlParse(value) ==
  CASE value = "https://auth.example.com" ->
         [err |-> FALSE, Scheme |-> "https", Host |-> "auth.example.com"]
    [] value = "http://auth.example.com" ->
         [err |-> FALSE, Scheme |-> "http", Host |-> "auth.example.com"]
    [] value = "http://localhost:8080" ->
         [err |-> FALSE, Scheme |-> "http", Host |-> "localhost:8080"]
    [] value = "ftp://auth.example.com" ->
         [err |-> FALSE, Scheme |-> "ftp", Host |-> "auth.example.com"]
    [] value = "https://" -> [err |-> FALSE, Scheme |-> "https", Host |-> ""]
    [] OTHER -> [err |-> FALSE, Scheme |-> "", Host |-> ""]

\* net.SplitHostPort(host): the host without its port, or an error.
SplitHostPort(host) ==
  CASE host = "localhost:8080" -> [err |-> FALSE, host |-> "localhost"]
    [] OTHER -> [err |-> TRUE, host |-> ""]

\* validConfigKeys
validConfigKeys == {"auth-server", "app-id", "installation-id"}

\* validateConfigKey(key): the error, "" for none.
validateConfigKey(key) ==
  IF key \notin validConfigKeys THEN "invalid configuration key" ELSE ""

\* validateIntegerValue(key, value)
validateIntegerValue(key, value) ==
  LET parsed == ParseInt(Chars(value))
  IN IF ~parsed.ok THEN [id |-> 0, err |-> "must be a valid integer"]
     ELSE IF parsed.val <= 0 THEN [id |-> 0, err |-> "must be a positive integer"]
     ELSE [id |-> parsed.val, err |-> ""]

\* isLocalhostAddress(host): localhost or a loopback address, with or
\* without a port.
isLocalhostAddress(host) ==
  LET split == SplitHostPort(host)
      name == IF ~split.err THEN split.host ELSE host
  IN name = "localhost" \/ name = "127.0.0.1"

\* A validation that takes every URL with a host.
validateURLValue_AnyScheme(value) ==
  LET parsedURL == UrlParse(value)
  IN IF parsedURL.err THEN "invalid URL"
     ELSE IF parsedURL.Host = "" THEN "URL must include a valid host"
     ELSE ""

\* validateURLValue(value)
validateURLValue(value) ==
  LET parsedURL == UrlParse(value)
  IN IF parsedURL.err THEN "invalid URL"
     ELSE IF parsedURL.Host = "" THEN "URL must include a valid host"
     ELSE IF parsedURL.Scheme = "http"
       THEN IF ~isLocalhostAddress(parsedURL.Host)
              THEN "HTTP protocol is only allowed for localhost addresses"
              ELSE ""
     ELSE IF parsedURL.Scheme # "https" THEN "URL must use HTTPS protocol"
     ELSE ""

\* validateConfigValue(key, value)
validateConfigValue(key, value) ==
  IF key = "auth-server" THEN validateURLValue(value)
  ELSE IF key \in {"app-id", "installation-id"} THEN validateIntegerValue(key, value).err
  ELSE ""

\* A command that was run: its arguments, the error it returned, whether its
\* config.Load failed.
Command(cmd, key, value, err, loadFailed) ==
  [cmd |-> cmd, key |-> key, value |-> value, err |-> err, loadFailed |-> loadFailed]
NoCommand == Command("", "", "", "", FALSE)
\* What the file system does to a command's config.Load and config.Save.
FileSystem == {"ok", "cannot read", "cannot write"}

CLIInit ==
  /\ cfg = EmptyConfig
  /\ cli = NoCommand

\* gh secrets-manager config set <key> <value>.  config.Load and config.Save
\* fail when the file cannot be read or opened for writing.
newConfigSetCmd ==
  \E key \in ConfigKeys, value \in ConfigValues, fs \in FileSystem :
    LET err == IF validateConfigKey(key) # "" THEN validateConfigKey(key)
               ELSE IF validateConfigValue(key, value) # ""
                 THEN validateConfigValue(key, value)
               ELSE IF fs = "cannot read" THEN "failed to load config"
               ELSE IF fs = "cannot write" THEN "failed to save config"
               ELSE ""
        new == IF key = "auth-server" THEN [cfg EXCEPT !.AuthServer = value]
               ELSE IF key = "app-id"
                 THEN [cfg EXCEPT !.AppID = validateIntegerValue(key, value).id]
               ELSE [cfg EXCEPT !.InstallationID = validateIntegerValue(key, value).id]
    IN /\ cfg' = IF err = "" THEN new ELSE cfg
       /\ cli' = Command("set", key, value, err, err = "failed to load config")
       /\ UNCHANGED <<now, brokerVars, clientVars, authVars>>

\* gh secrets-manager config delete <key>
newConfigDeleteCmd ==
  \E key \in ConfigKeys, fs \in FileSystem :
    LET err == IF validateConfigKey(key) # "" THEN validateConfigKey(key)
               ELSE IF fs = "cannot read" THEN "failed to load config"
               ELSE IF fs = "cannot write" THEN "failed to save config"
               ELSE ""
        new == IF key = "auth-server" THEN [cfg EXCEPT !.AuthServer = ""]
               ELSE IF key = "app-id" THEN [cfg EXCEPT !.AppID = 0]
               ELSE [cfg EXCEPT !.InstallationID = 0]
    IN /\ cfg' = IF err = "" THEN new ELSE cfg
       /\ cli' = Command("delete", key, "", err, err = "failed to load config")
       /\ UNCHANGED <<now, brokerVars, clientVars, authVars>>

\* NewClient(): GitHub App options from the stored configuration when it
\* loads and is complete, PAT options otherwise; then NewClientWithOptions.
\* GetCurrentUsername may fail, and the username is then left empty.
NewClient ==
  /\ built = "none"
  /\ \E loaded \in BOOLEAN, username \in Usernames :
       LET o == IF loaded /\ IsGitHubAppConfigured(cfg)
                  THEN ClientOptions(AuthMethodGitHubApp, cfg.AuthServer, username,
                                     cfg.Organization, cfg.Team)
                  ELSE ClientOptions(AuthMethodPAT, "", "", "", "")
       IN /\ opts' = o
          /\ NewClientWithOptions(o)
          /\ cli' = Command("secrets", "", "", IF built' = "error" THEN "error" ELSE "",
                            ~loaded)
  /\ UNCHANGED <<now, brokerVars, authVars, cfg, callers, answers, cpc, prog, authResp,
                 nsent, chk, sent, nauth>>

CLINext ==
  \/ newConfigSetCmd
  \/ newConfigDeleteCmd
  \/ NewClient

vars == <<now, brokerVars, clientVars, authVars, cliVars>>

\* ------------------------------------------------------- specifications
\* main(): the Handler a broker process is started with.
Handlers == [privateKeyPEM : KeyMaterials, organization : ServerOrgs, team : ServerTeams]
\* The ClientOptions NewClient and the commands' flags can produce.
Options ==
  {ClientOptions(m, a, "", "", "") : m \in {AuthMethodPAT, AuthMethodGitHubApp}, a \in AuthServers}

\* The broker serving requests, one after the other; no client process.
InitBroker ==
  /\ now = 1
  /\ h \in Handlers
  /\ BrokerInit
  /\ opts = ClientOptions(AuthMethodPAT, "", "", "", "")
  /\ ClientInit
  /\ AuthInit
  /\ CLIInit
  /\ callers = {}
  /\ answers = {}
SpecBroker == InitBroker /\ [][BrokerNext]_vars

\* A Client used by one caller at a time, as the CLI commands use it; no
\* broker process (the auth server's answers are AuthAnswers).
InitClient ==
  /\ now = 1
  /\ h = [privateKeyPEM |-> "", organization |-> "", team |-> ""]
  /\ BrokerInit
  /\ opts \in Options
  /\ ClientInit
  /\ AuthInit
  /\ CLIInit
  /\ callers = {1}
  /\ answers = AuthAnswers
SpecClient == InitClient /\ [][ClientNext]_vars

\* A Client shared by several goroutines, and an auth server that is the
\* repository's broker: it fails, or answers 200 with a token and its expiry.
BrokerAuthAnswers ==
  {[net |-> TRUE, status |-> StatusInternalServerError, body |-> NoAuthBody]} \cup
  {[net |-> TRUE, status |-> StatusOK, body |-> AuthBody(TRUE, Cred(e), e)] :
     e \in {Minute + 1, MaxTime + Minute + 1}}
InitShared ==
  /\ now = 1
  /\ h = [privateKeyPEM |-> "", organization |-> "", team |-> ""]
  /\ BrokerInit
  /\ opts \in Options
  /\ ClientInit
  /\ AuthInit
  /\ CLIInit
  /\ callers = AllCallers
  /\ answers = BrokerAuthAnswers
SpecShared == InitShared /\ [][ClientNext]_vars

\* Package auth called directly, as its tests and the broker's handler call
\* it; no broker request and no client.
InitAuthPackage ==
  /\ now = 1
  /\ h = [privateKeyPEM |-> "", organization |-> "", team |-> ""]
  /\ BrokerInit
  /\ opts = ClientOptions(AuthMethodPAT, "", "", "", "")
  /\ ClientInit
  /\ AuthInit
  /\ CLIInit
  /\ callers = {}
  /\ answers = {}
SpecAuth == InitAuthPackage /\ [][AuthNext]_vars

\* One caller's Client whose auth server is the broker: the client is
\* constructed against it and every later refresh is a request its handler
\* serves.
InitEndToEnd ==
  /\ now = 1
  /\ h \in [privateKeyPEM : {"PEM:RSA", "PEM:EC"}, organization : {""}, team : {""}]
  /\ BrokerInit
  /\ opts = ClientOptions(AuthMethodGitHubApp, "https://auth.example.com", "", "", "")
  /\ ClientInit
  /\ AuthInit
  /\ CLIInit
  /\ callers = {1}
  /\ answers = BrokerAuthAnswers
SpecEndToEnd == InitEndToEnd /\ [][EndToEndNext]_vars

\* The broker serving /token and /healthz requests.
HealthNext ==
  \/ BrokerNext
  \/ ReceiveHealth
  \/ handleHealth
SpecHealth == InitBroker /\ [][HealthNext]_vars

\* Two /token requests in flight at a broker that holds an RSA key and names
\* an organization; the clock stands still while they are served.
ConcurrentNext ==
  \/ ReceiveWellFormed
  \/ ParseRequest
  \/ InitAuth
  \/ ResolveOrganization
  \/ RequireUsername
  \/ RequestToken
  \/ VerifyMembership
  \/ SendToken
  \/ Finish
  \/ Switch
InitConcurrent ==
  /\ now = 1
  /\ h = [privateKeyPEM |-> "PEM:RSA", organization |-> "cfg-org", team |-> ""]
  /\ BrokerInit
  /\ opts = ClientOptions(AuthMethodPAT, "", "", "", "")
  /\ ClientInit
  /\ AuthInit
  /\ CLIInit
  /\ callers = {}
  /\ answers = {}
SpecConcurrent == InitConcurrent /\ [][ConcurrentNext]_vars

\* One caller's Client whose auth server is a broker with a team gate; the
\* client sends its user's name, or none.
InitGated ==
  /\ now = 1
  /\ h = [privateKeyPEM |-> "PEM:RSA", organization |-> "cfg-org", team |-> "cfg-team"]
  /\ BrokerInit
  /\ opts \in {ClientOptions(AuthMethodGitHubApp, "https://auth.example.com", u, "", "") :
                 u \in Usernames}
  /\ ClientInit
  /\ AuthInit
  /\ CLIInit
  /\ callers = {1}
  /\ answers = BrokerAuthAnswers
SpecGated == InitGated /\ [][EndToEndNext]_vars

\* The config commands and NewClient, run one after the other against one
\* config.json; the auth server is the repository's broker.
InitCLI ==
  /\ now = 1
  /\ h = [privateKeyPEM |-> "", organization |-> "", team |-> ""]
  /\ BrokerInit
  /\ opts = ClientOptions(AuthMethodPAT, "", "", "", "")
  /\ ClientInit
  /\ AuthInit
  /\ CLIInit
  /\ callers = {}
  /\ answers = BrokerAuthAnswers
SpecCLI == InitCLI /\ [][CLINext]_vars

\* ------------------------------------------------------------- claims
\* The request being served is well formed and the broker holds an RSA key:
\* nothing but the team gate and the platform can make it fail.
WellFormed ==
  /\ r.method = "POST"
  /\ ParseInt(r.appID).ok
  /\ ParseInt(r.installationID).ok
  /\ h.privateKeyPEM = "PEM:RSA"
GateInEffect == (IF r.team # "" THEN r.team ELSE h.team) # ""

\* The platform's answers to the request's upstream calls.
CallsTo(ep) == {i \in 1..Len(calls) : calls[i].ep = ep}
Exchanged ==
  \E i \in CallsTo("access_tokens") :
    /\ calls[i].answer.net
    /\ calls[i].answer.status = 201
    /\ calls[i].answer.body.json
    /\ calls[i].answer.body.token # ""
    /\ calls[i].answer.body.expires_at # 0
MemberActive ==
  \E i \in CallsTo("membership") :
    /\ calls[i].user = r.username
    /\ calls[i].answer.net
    /\ calls[i].answer.status = 200
    /\ calls[i].answer.body.json
    /\ calls[i].answer.body.state = "active"
MemberPendingOrNotFound ==
  \E i \in CallsTo("membership") :
    /\ calls[i].answer.net
    /\ \/ calls[i].answer.status = 404
       \/ /\ calls[i].answer.status = 200
          /\ calls[i].answer.body.json
          /\ calls[i].answer.body.state # "active"

C3_NoUsernameNoUpstreamCall ==
  (bpc = "done" /\ WellFormed /\ GateInEffect /\ r.username = "") =>
    /\ w.status = 400
    /\ calls = <<>>

\* C4 as stated: a validity check contacts the broker exactly when
\* now + 1 minute >= cached expiry.
C4_RefreshAtBoundary ==
  \A c \in callers :
    chk[c] # NoCheck => (chk[c].refresh <=> chk[c].at + Minute >= chk[c].exp)
\* C4, amended: a validity check of a GitHub-App client contacts the broker
\* exactly when now + 1 minute > cached expiry; at now + 1 minute = cached
\* expiry it does not.
C4_RefreshStrictlyAfter ==
  \A c \in callers :
    chk[c] # NoCheck =>
      /\ chk[c].refresh <=> chk[c].at + Minute > chk[c].exp
      /\ cpc[c] = "refreshing" => chk[c].refresh
C4_Witness ==
  \E c \in callers :
    /\ chk[c] # NoCheck
    /\ chk[c].at + Minute = chk[c].exp
    /\ ~chk[c].refresh
    /\ nsent[c] > 0

\* C5: of the callers sharing one Client, at most one has a request to the
\* broker in flight.
C5_SingleFlightRefresh ==
  Cardinality({c \in callers : cpc[c] = "refreshing"}) <= 1

\* C6: a call whose refresh failed has returned the error and has sent no
\* downstream request, and no downstream request is ever sent by a call
\* after its refresh failed.
C6_FailedRefreshFailsClosed ==
  /\ \A c \in callers :
       chk[c].failed => cpc[c] = "refresh failed" /\ nsent[c] = 0
  /\ ~sent.failed
C6_Witness ==
  \E c \in callers :
    /\ cpc[c] = "refresh failed"
    /\ chk[c].failed
    /\ authToken # NoCred
    /\ github = authToken

\* C7 as stated: after a failed refresh the client holds no token and no
\* expiry.
C7_FailedRefreshDiscards ==
  \A c \in callers :
    cpc[c] = "refresh failed" => authToken = NoCred /\ expiresAt = 0
\* C7, amended: after a failed refresh the client holds the token and the
\* expiry it held when the call checked them, and that expiry is still
\* within the margin.
C7_FailedRefreshKeepsCache ==
  \A c \in callers :
    cpc[c] = "refresh failed" =>
      /\ authToken = chk[c].token
      /\ expiresAt = chk[c].exp
      /\ chk[c].at + Minute > expiresAt
C7_Witness ==
  \E c \in callers :
    /\ cpc[c] = "refresh failed"
    /\ authToken # NoCred
    /\ expiresAt # 0

\* C8: a downstream request of a GitHub-App client whose credential had not
\* expired when its call checked it has not expired when the request is sent.
C8_NeverSendsExpired ==
  (opts.AuthMethod = AuthMethodGitHubApp /\ sent # NoSend
     /\ sent.bearer.exp > sent.checkedAt)
    => sent.bearer.exp > sent.at

\* C9: the exchange returns a credential only for a 201 whose body decodes
\* to a non-empty token and a non-zero expiry; another status gives an error
\* with the status and the body, a 201 lacking a field gives an error, and
\* no credential has an empty token or a zero expiry.
C9_ExchangeResult ==
  /\ token # NilToken => Exchanged /\ token.token # "" /\ token.expires_at # 0
  /\ \A i \in CallsTo("access_tokens") :
       LET a == calls[i].answer
       IN /\ (a.net /\ a.status # 201) =>
               /\ token = NilToken
               /\ bpc = "done"
               /\ w.err.kind = "GitHub API error"
               /\ w.err.status = a.status
               /\ w.err.body = a.body
          /\ (a.net /\ a.status = 201 /\ a.body.json
                /\ (a.body.token = "" \/ a.body.expires_at = 0)) =>
               /\ token = NilToken
               /\ bpc = "done"
               /\ w.status = 500
               /\ w.err.kind = "invalid token response: missing required fields"
C9_Witness ==
  /\ bpc = "done"
  /\ \E i \in CallsTo("access_tokens") :
       /\ calls[i].answer.status = 201
       /\ calls[i].answer.body.json
       /\ calls[i].answer.body.token # ""
       /\ calls[i].answer.body.expires_at = 0
  /\ w.status = 500

\* C10 as stated: the expiry of a credential the exchange returned is later
\* than the time the exchange was made.
C10_ExpiryAfterIssuance ==
  \A i \in CallsTo("access_tokens") :
    token # NilToken => token.expires_at > calls[i].jwt.iat
\* C10, amended: a credential the exchange returned has a non-empty token
\* and the platform's expires_at, which is not zero; it is later than the
\* time of the exchange exactly when the platform's value is.
C10_ExpiryIsThePlatforms ==
  \A i \in CallsTo("access_tokens") :
    token # NilToken =>
      /\ token.token # ""
      /\ token.expires_at # 0
      /\ token.expires_at = calls[i].answer.body.expires_at
C10_Witness ==
  \E i \in CallsTo("access_tokens") :
    /\ token # NilToken
    /\ token.expires_at <= calls[i].jwt.iat
    /\ w.status = 200

\* The requests of the last package call that an assertion authenticates.
AssertionRequests ==
  {i \in 1..Len(reqs) : reqs[i].ep \in {"access_tokens", "installation"}}
WellFormedAssertion(jwt, auth) ==
  /\ ParseInt(jwt.iss) = [ok |-> TRUE, val |-> auth.appID]
  /\ auth.appID = 12 => jwt.iss = <<"1", "2">>
  /\ auth.appID = 0 - 7 => jwt.iss = <<"-", "7">>
  /\ jwt.exp = jwt.iat + JWTLifetime
  /\ jwt.key = auth.privateKey

\* C12: every assertion GenerateJWT returns has the application ID in
\* decimal as its issuer and expires 10 minutes after it was issued, and the
\* assertion of every token exchange and installation lookup was issued at
\* the time of that call, by that call.
C12_AssertionFreshPerCall ==
  [][now' = now =>
       /\ (out'.op = "GenerateJWT" /\ out'.err = NoError) =>
            WellFormedAssertion(out'.jwt, gh') /\ out'.jwt.iat = now
       /\ \A i \in 1..Len(reqs') :
            reqs'[i].ep \in {"access_tokens", "installation"} =>
              /\ WellFormedAssertion(reqs'[i].jwt, gh')
              /\ reqs'[i].jwt.iat = now]_vars
C12_Witness ==
  /\ now > 1
  /\ gh.appID = 0 - 7
  /\ \E i \in AssertionRequests :
       /\ reqs[i].ep = "installation"
       /\ reqs[i].jwt.iat = now
       /\ reqs[i].jwt.exp = now + JWTLifetime

\* The platform's answer to the membership request of the last call.
MembershipAnswered(status) ==
  /\ out.op = "VerifyTeamMembership"
  /\ reqs # <<>>
  /\ reqs[1].answer.net
  /\ reqs[1].answer.status = status

\* C13: the team-membership verifier answers member for a 200 whose state is
\* "active", not-a-member without error for a 200 with another state and for
\* a 404, an error for a 403, and an error with the status code for any
\* other status.
C13_MembershipDecisionTable ==
  /\ (MembershipAnswered(200) /\ reqs[1].answer.body.json) =>
       /\ out.err = NoError
       /\ out.isMember <=> reqs[1].answer.body.state = "active"
  /\ MembershipAnswered(404) => out.err = NoError /\ ~out.isMember
  /\ MembershipAnswered(403) =>
       /\ out.err = Err("access forbidden: unable to check team membership")
       /\ ~out.isMember
  /\ \A st \in {StatusInternalServerError} :
       MembershipAnswered(st) =>
         /\ out.err.kind = "GitHub API error"
         /\ out.err.status = st
         /\ ~out.isMember
C13_Witness ==
  /\ MembershipAnswered(500)
  /\ out.err.status = 500

\* C14: a membership check called with an empty username, organization or
\* team returns an error and sends no request.
C14_EmptyArgumentNoRequest ==
  (out.op = "VerifyTeamMembership"
     /\ (out.in.username = "" \/ out.in.organization = "" \/ out.in.team = "")) =>
    /\ out.err = Err("username, organization, and team are required")
    /\ ~out.isMember
    /\ reqs = <<>>
C14_Witness ==
  /\ out.op = "VerifyTeamMembership"
  /\ out.in.username # ""
  /\ out.in.organization # ""
  /\ out.in.team = ""
  /\ out.err # NoError
  /\ reqs = <<>>

\* C20: with a GitHubAuth that holds no private key, GenerateJWT returns an
\* error and no token, and GetInstallationToken and GetInstallation return
\* that error without sending a request.
C20_NoKeyNoToken ==
  (apc = "ready" /\ gh.privateKey = NoKey
     /\ out.op \in {"GenerateJWT", "GetInstallationToken", "GetInstallation"}) =>
    /\ out.err = Err("private key is nil")
    /\ out.jwt = NilJWT
    /\ out.token = NilToken
    /\ out.login = ""
    /\ reqs = <<>>
C20_Witness ==
  /\ apc = "ready"
  /\ gh.privateKey = NoKey
  /\ out.op = "GetInstallationToken"
  /\ out.err # NoError
  /\ reqs = <<>>

\* The organization and team the request asks for or the server is
\* configured with, before any auto-detection.
WantedOrganization == IF r.org # "" THEN r.org ELSE h.organization
WantedTeam == IF r.team # "" THEN r.team ELSE h.team
\* The handler has resolved the team and found no organization for it.
AutoDetect == team # "" /\ WantedOrganization = ""
LookupResolved(a) ==
  a.net /\ a.status = 200 /\ a.body.json /\ a.body.login # ""

VerifierFailed ==
  \E i \in CallsTo("membership") :
    LET a == calls[i].answer
    IN \/ ~a.net
       \/ a.status \in {403, 500}
       \/ a.status = 200 /\ ~a.body.json

C18_BadIDsRejectedFirst ==
  (bpc \notin {"idle", "parse"} /\ r.method = "POST"
     /\ (r.appID \in {<<>>, <<"x">>} \/ r.installationID \in {<<>>, <<"x">>})) =>
    /\ bpc = "done"
    /\ w.status = 400
    /\ ghAuth = NilAuth
    /\ token = NilToken
    /\ calls = <<>>
C18_Witness ==
  /\ bpc = "done"
  /\ r.method = "POST"
  /\ r.appID = <<"1", "2">>
  /\ r.installationID = <<"x">>
  /\ h.privateKeyPEM = "PEM:RSA"
  /\ w.status = 400

\* C19: with key material that is empty, not PEM, or PEM that is no RSA
\* private key, a well-formed POST gets no GitHubAuth and is answered 500
\* with no upstream call.
C19_BadKeyFailsBeforeNetwork ==
  (bpc \notin {"idle", "parse", "auth"} /\ r.method = "POST"
     /\ r.appID \in {<<"1", "2">>, <<"-", "7">>}
     /\ r.installationID \in {<<"1", "2">>, <<"-", "7">>}
     /\ h.privateKeyPEM \in {"", "not-pem", "PEM:EC"}) =>
    /\ bpc = "done"
    /\ w.status = 500
    /\ w.err.kind \in {"failed to decode PEM block", "failed to parse private key"}
    /\ ghAuth = NilAuth
    /\ token = NilToken
    /\ calls = <<>>
C19_Witness ==
  /\ bpc = "done"
  /\ r.method = "POST"
  /\ r.appID = <<"1", "2">>
  /\ r.installationID = <<"1", "2">>
  /\ h.privateKeyPEM = "PEM:EC"
  /\ w.status = 500

\* C11: the expires_at of the platform's answer is the expires_at of the
\* broker's 200 response, the one the client decodes from it and the one it
\* stores as the expiry of the token it caches.
C11_ExpiryPassedThrough ==
  /\ (bpc = "done" /\ w.status = 200) =>
       /\ w.expires_at = PlatformExpiry
       /\ w.expires_at = token.expires_at
  /\ \A c \in callers :
       /\ cpc[c] \in {"set authToken", "set expiresAt", "set github"} =>
            authResp[c].expires_at = authResp[c].token.exp
       /\ (built = "client" /\ cpc[c] # "set expiresAt") => expiresAt = authToken.exp
C11_Witness ==
  /\ built = "client"
  /\ authToken.id = "ghs_A"
  /\ expiresAt = authToken.exp
  /\ expiresAt < MaxTime
  /\ \E c \in callers : cpc[c] = "ok" /\ nsent[c] > 0 /\ chk[c].refresh


\* C21: a health request is answered in whatever state the broker is in, and
\* the answer is always 200 "ok", whatever the key material and configuration
\* of the broker and whatever became of the /token request it is serving;
\* answering it makes no upstream call and changes nothing the broker holds.
C21_HealthUnconditional ==
  /\ [](hw.pc = "serve" => ENABLED handleHealth)
  /\ [][(hw.pc = "serve" /\ hw'.pc = "done") =>
          /\ hw'.status = StatusOK
          /\ hw'.body = "ok"
          /\ UNCHANGED <<h, bpc, r, ghAuth, organization, team, token, calls, w>>]_vars

\* A broker without a usable key has failed a /token request with 500 and
\* answers the health request with 200.
C21_Witness ==
  /\ hw.pc = "done"
  /\ hw.status = StatusOK
  /\ h.privateKeyPEM = "not-pem"
  /\ bpc = "done"
  /\ w.status = StatusInternalServerError


\* C29: a /token request whose method is not POST is answered 405 whatever
\* its query parameters are: no signer is constructed for it, no upstream
\* call is made and the response carries no token.
C29_NotPostIs405 ==
  (bpc \notin {"idle", "parse"} /\ r.method # "POST") =>
    /\ bpc = "done"
    /\ w.status = StatusMethodNotAllowed
    /\ w.token = ""
    /\ ghAuth = NilAuth
    /\ calls = <<>>

\* A GET whose parameters a POST would be served with has been answered 405
\* by a broker that holds an RSA key.
C29_Witness ==
  /\ bpc = "done"
  /\ r.method = "GET"
  /\ r.appID = <<"1", "2">>
  /\ r.installationID = <<"1", "2">>
  /\ r.username = "alice"
  /\ h.privateKeyPEM = "PEM:RSA"
  /\ w.status = StatusMethodNotAllowed


\* The platform answered the request's i-th upstream call, a token exchange,
\* with a credential.
ExchangeSucceeded(i) ==
  /\ calls[i].ep = "access_tokens"
  /\ calls[i].answer.net
  /\ calls[i].answer.status = StatusCreated
  /\ calls[i].answer.body.json
  /\ calls[i].answer.body.token # ""
  /\ calls[i].answer.body.expires_at # 0

C28_PATNeverRefreshes ==
  opts.AuthMethod = AuthMethodPAT =>
    /\ authToken = NoCred
    /\ expiresAt = 0
    /\ github \in {NoCred, PATCred}
    /\ \A c \in callers :
         /\ cpc[c] \in {"idle", "run", "ok", "request failed"}
         /\ nauth[c] = 0
         /\ ~chk[c].refresh

\* A PAT client has finished an operation at the end of the clock's range,
\* long after its zero expiry, and sent a request with the gh CLI's
\* authentication.
C28_Witness ==
  /\ opts.AuthMethod = AuthMethodPAT
  /\ built = "client"
  /\ now = MaxTime
  /\ NeedsRefresh(now, expiresAt)
  /\ cpc[1] = "ok"
  /\ sent.bearer = PATCred
  /\ sent.at = MaxTime


\* No caller is in the middle of refreshToken's three stores.
NoStoreInProgress ==
  \A c \in callers : cpc[c] \notin {"set authToken", "set expiresAt", "set github"}

\* C27: a GitHub-App client that was built, and whose refreshes have
\* returned, caches a non-empty token and a non-zero expiry: a 200 answer
\* whose body lacks the token or the expiry is not taken for a credential.
C27_AcceptedCredentialComplete ==
  (opts.AuthMethod = AuthMethodGitHubApp /\ built = "client" /\ NoStoreInProgress) =>
    /\ authToken # NoCred
    /\ expiresAt # 0


\* C26: whenever no refresh is in the middle of its stores, the cached token
\* and the cached expiry of a GitHub-App client come from the same answer of
\* the auth server (the expiry is that of the token), and the transport of
\* the downstream requests carries the cached token.
C26_CachedPairFromOneResponse ==
  (opts.AuthMethod = AuthMethodGitHubApp /\ built = "client" /\ NoStoreInProgress) =>
    /\ authToken.exp = expiresAt
    /\ github = authToken


\* The platform answered the request's i-th upstream call, a membership
\* check, with an active membership.
MembershipConfirmed(i) ==
  /\ calls[i].ep = "membership"
  /\ calls[i].answer.net
  /\ calls[i].answer.status = StatusOK
  /\ calls[i].answer.body.json
  /\ calls[i].answer.body.state = "active"

\* A /token request sends at most one token exchange and at most one
\* membership check, and the first of them to fail is the last call it
\* makes: the request is answered with the failure, without a token.
BrokerNeverRetries ==
  /\ Cardinality(CallsTo("access_tokens")) <= 1
  /\ Cardinality(CallsTo("membership")) <= 1
  /\ \A i \in 1..Len(calls) :
       ~(ExchangeSucceeded(i) \/ MembershipConfirmed(i)) =>
         /\ i = Len(calls)
         /\ bpc = "done"
         /\ w.status \in {StatusForbidden, StatusInternalServerError}
         /\ w.token = ""

\* C25 as stated: one call of the client sends at most one request to the
\* broker, and exactly one once a refresh it triggered has its answer; the
\* broker sends at most one exchange and one membership check per request.
C25_OneRequestPerCall ==
  /\ BrokerNeverRetries
  /\ \A c \in callers : nauth[c] <= 1

\* C25: no network call is retried.  The client sends a request to the
\* broker only for a validity check that found the credential within a
\* minute of its expiry, one request for each such check; the answer to it,
\* good or bad, is final: a failure ends the client's call.  The broker sends
\* at most one exchange and one membership check per request and answers
\* with the first failure.
C25_NoRetry ==
  /\ []BrokerNeverRetries
  /\ [][\A c \in callers :
          /\ (cpc'[c] = "refreshing" /\ cpc[c] # "refreshing") =>
               /\ cpc[c] = "run"
               /\ Head(prog[c]) = "check"
               /\ NeedsRefresh(now, expiresAt)
          /\ nauth'[c] # nauth[c] =>
               \/ nauth'[c] = 0 /\ cpc'[c] = "run"
               \/ /\ nauth'[c] = nauth[c] + 1
                  /\ cpc[c] = "refreshing"
                  /\ cpc'[c] = "awaiting"
          /\ (cpc[c] = "awaiting" /\ cpc'[c] # "awaiting") =>
               cpc'[c] \in {"refresh failed", "set authToken"}
          /\ (cpc[c] = "refresh failed" /\ cpc'[c] # "refresh failed") =>
               /\ cpc'[c] = "run"
               /\ nauth'[c] = 0]_vars

\* One call of CreateOrUpdateOrgSecret has sent its second request to the
\* broker, for its second validity check, and the broker, after one exchange
\* and one membership check, has refused it.
C25_Witness ==
  /\ nauth[1] = 2
  /\ cpc[1] = "awaiting"
  /\ bpc = "done"
  /\ Cardinality(CallsTo("access_tokens")) = 1
  /\ Cardinality(CallsTo("membership")) = 1
  /\ w.status = StatusForbidden


\* C22: NewClient chooses GitHub App authentication exactly when the
\* configuration loaded and has auth-server, app-id and installation-id all
\* set, and PAT otherwise.  With GitHub App chosen the client it returns
\* carries a token the auth server answered with, and when the initial token
\* request fails it returns an error and no client: never a PAT client.
C22_AppExactlyWhenConfigured ==
  cli.cmd = "secrets" =>
    /\ opts.AuthMethod \in {AuthMethodPAT, AuthMethodGitHubApp}
    /\ opts.AuthMethod = AuthMethodGitHubApp <=>
         /\ ~cli.loadFailed
         /\ cfg.AuthServer # ""
         /\ cfg.AppID # 0
         /\ cfg.InstallationID # 0
    /\ opts.AuthMethod = AuthMethodPAT =>
         /\ authToken = NoCred
         /\ github = IF built = "client" THEN PATCred ELSE NoCred
    /\ opts.AuthMethod = AuthMethodGitHubApp =>
         /\ opts.AuthServer = cfg.AuthServer
         /\ built \in {"client", "error"}
         /\ built = "client" =>
              /\ cli.err = ""
              /\ github = authToken
              /\ \E a \in answers :
                   a.net /\ a.status = StatusOK /\ a.body.json /\ a.body.token = authToken
         /\ built = "error" =>
              /\ cli.err # ""
              /\ github = NoCred
              /\ authToken = NoCred

\* The three settings were stored, NewClient chose GitHub App and its initial
\* token request failed: it returned an error.
C22_Witness ==
  /\ cli.cmd = "secrets"
  /\ cfg = Config("https://auth.example.com", 12, 12)
  /\ opts.AuthMethod = AuthMethodGitHubApp
  /\ built = "error"
  /\ cli.err # ""


\* The stored auth-server is a URL the validation accepts: it has a host and
\* its scheme is https, or http with a localhost host.
AcceptableServer(value) ==
  /\ ~UrlParse(value).err
  /\ UrlParse(value).Host # ""
  /\ \/ UrlParse(value).Scheme = "https"
     \/ /\ UrlParse(value).Scheme = "http"
        /\ UrlParse(value).Host \in {"localhost", "localhost:8080"}

\* The values that spell a positive integer.
PositiveNumerals == {"12"}

\* C30: after every sequence of config set and config delete commands from
\* the empty configuration, the stored app-id and installation-id are 0 or
\* positive and the stored auth-server is empty or an acceptable URL; a set
\* command with an unknown key or an invalid value returns an error, and a
\* command that returns an error leaves the stored configuration as it was.
C30_StoredConfigValid ==
  [][/\ cfg'.AppID >= 0
     /\ cfg'.InstallationID >= 0
     /\ cfg'.AuthServer = "" \/ AcceptableServer(cfg'.AuthServer)
     /\ cli'.cmd = "set" =>
          /\ cli'.key \notin {"auth-server", "app-id", "installation-id"} => cli'.err # ""
          /\ (cli'.key = "auth-server" /\ ~AcceptableServer(cli'.value)) => cli'.err # ""
          /\ (/\ cli'.key \in {"app-id", "installation-id"}
              /\ cli'.value \notin PositiveNumerals) => cli'.err # ""
     /\ (cli'.cmd \in {"set", "delete"} /\ cli'.err # "") => cfg' = cfg
     /\ (cli'.cmd = "set" /\ cli'.err = "" /\ cli' # cli) =>
          /\ cli'.key = "auth-server" => cfg' = [cfg EXCEPT !.AuthServer = cli'.value]
          /\ cli'.key = "app-id" => cfg' = [cfg EXCEPT !.AppID = 12]
          /\ cli'.key = "installation-id" => cfg' = [cfg EXCEPT !.InstallationID = 12]]_vars

\* All three settings are stored, the server being a localhost http URL, and
\* the last command, a set of a negative app-id, returned an error.
C30_Witness ==
  /\ cfg = Config("http://localhost:8080", 12, 12)
  /\ cli.cmd = "set"
  /\ cli.key = "app-id"
  /\ cli.value = "-7"
  /\ cli.err # ""


\* The two requests in flight: the one whose goroutine runs, and the other.
Running == Locals(bpc, r, ghAuth, organization, team, token, calls, w)
InFlight == {Running, other}

\* The upstream calls a request has made to an endpoint.
CallsOf(req, ep) == {i \in 1..Len(req.calls) : req.calls[i].ep = ep}

\* The credential the platform's answer to a request's own exchange holds.
OwnCredential(req) ==
  GetInstallationToken(
    req.calls[CHOOSE i \in CallsOf(req, "access_tokens") : TRUE].answer).token

\* The response a well-formed request gets when it is served alone by a
\* broker that holds a key and names an organization, from the platform's
\* answers to its own exchange and its own membership check.
Alone(req) ==
  LET tm == EffectiveTeam(req.r, h)
      exchange == GetInstallationToken(
                    req.calls[CHOOSE i \in CallsOf(req, "access_tokens") : TRUE].answer)
      member == VerifyTeamMembership(
                  req.calls[CHOOSE i \in CallsOf(req, "membership") : TRUE].answer)
  IN IF exchange.err # NoError THEN HttpError(StatusInternalServerError, exchange.err)
     ELSE IF tm = "" THEN TokenJSON(exchange.token)
     ELSE IF member.err # NoError THEN HttpError(StatusInternalServerError, member.err)
     ELSE IF ~member.isMember THEN HttpError(StatusForbidden, Err("not a member of team"))
     ELSE TokenJSON(exchange.token)

=============================================================================
